---- MODULE Spec2Model ----
(***************************************************************************)
(* Camera configuration of viseron: src/lib/config/config_camera.py.       *)
(*                                                                         *)
(* SCHEMA validates a list of raw camera mappings (voluptuous), fills in   *)
(* defaults, and runs get_codec and ensure_mqtt_name on every entry.       *)
(* CameraConfig wraps one validated entry and derives zones, protocol and  *)
(* stream_url.                                                             *)
(*                                                                         *)
(* Values.  A Python value is a tagged record: Absent (key not in the      *)
(* mapping), None, or Val(v).  name and mqtt_name are sequences of         *)
(* one-character strings, so that the regular expression and slugify can   *)
(* be computed character by character; the other strings are TLA+ strings. *)
(* A Python list that can be shared (the argument vectors) is an object in *)
(* `heap`, and an entry holds its identity, not its content.               *)
(*                                                                         *)
(* Not modelled: width, height, publish_image, motion_detection, logging   *)
(* (validated and carried through unchanged; nothing modelled reads them), *)
(* and values of the wrong Python type.                                    *)
(***************************************************************************)
EXTENDS Integers, Sequences, FiniteSets, TLC

VARIABLES
    env,         \* the process environment: capability variable -> value
    heap,        \* list objects: identity -> content
    raw,         \* the list of raw camera mappings last handed to SCHEMA
    source,      \* the raw list the current `config` was validated from
    config,      \* the validated camera entries (SCHEMA's last return value)
    result,      \* "none" before the first load, then "ok" or "error"
    errors,      \* the errors SCHEMA raised on the last load
    loads,       \* number of raw lists handed to SCHEMA so far
    passes,      \* validation passes `config` has been through
    descriptor,  \* the CameraConfig most recently constructed, or NoDescriptor
    built,       \* index in `config` of the entry `descriptor` was built from, or 0
    mutated      \* <<i, field>>: vectors of config[i] mutated in place through it

vars == <<env, heap, raw, source, config, result, errors, loads, passes,
          descriptor, built, mutated>>

-----------------------------------------------------------------------------
(* Bounds *)

MaxNameLen == 2
MaxZones == 2
MaxCameras == 2
MaxLoads == 2
MaxPasses == 2
MaxMutations == 2

-----------------------------------------------------------------------------
(* Python values *)

Absent == [t |-> "absent"]
None == [t |-> "none"]
Val(v) == [t |-> "val", v |-> v]
Ref(id) == [t |-> "ref", id |-> id]

\* Python truthiness of a string-or-None value.
Truthy(x) == x.t = "val" /\ Len(x.v) > 0

\* f"{x}" of a string-or-None value.
Format(x) == IF x = None THEN "None" ELSE x.v

-----------------------------------------------------------------------------
(* const.py: the imported constants.  Their content is opaque to this      *)
(* module; what matters is that the argument vectors are list objects and  *)
(* the codecs are distinct strings.                                        *)

CAMERA_GLOBAL_ARGS == <<"-hide_banner", "-loglevel">>
CAMERA_INPUT_ARGS == <<"-avoid_negative_ts">>
CAMERA_HWACCEL_ARGS == <<>>
FILTER_ARGS_DEFAULT == <<>>
HWACCEL_VAAPI == <<"-hwaccel", "vaapi">>
DECODER_CODEC == "h264"
HWACCEL_CUDA_DECODER_CODEC == "h264_cuvid"
HWACCEL_RPI3_DECODER_CODEC == "h264_mmal"
ENV_CUDA_SUPPORTED == "VISERON_CUDA_SUPPORTED"
ENV_RASPBERRYPI3 == "VISERON_RASPBERRYPI3"
ENV_VAAPI_SUPPORTED == "VISERON_VAAPI_SUPPORTED"

\* Identity of a module-level list object (created once, at import).
Global(name) == <<0, 0, name>>
\* Identity of the list the raw mapping `i` of load `n` gives for `field`.
Own(n, i, field) == <<n, i, field>>

VectorFields == {"global_args", "input_args", "hwaccel_args", "filter_args"}

\* The object voluptuous hands out for an argument vector left unset:
\* default_factory wraps the value in `lambda: value`, the same object each time.
DefaultObject(field) ==
    CASE field = "global_args" -> Global("CAMERA_GLOBAL_ARGS")
      [] field = "input_args" -> Global("CAMERA_INPUT_ARGS")
      [] field = "hwaccel_args" -> Global("CAMERA_HWACCEL_ARGS")
      [] field = "filter_args" -> Global("FILTER_ARGS_DEFAULT")

InitialHeap ==
    (Global("CAMERA_GLOBAL_ARGS") :> CAMERA_GLOBAL_ARGS)
    @@ (Global("CAMERA_INPUT_ARGS") :> CAMERA_INPUT_ARGS)
    @@ (Global("CAMERA_HWACCEL_ARGS") :> CAMERA_HWACCEL_ARGS)
    @@ (Global("FILTER_ARGS_DEFAULT") :> FILTER_ARGS_DEFAULT)
    @@ (Global("HWACCEL_VAAPI") :> HWACCEL_VAAPI)

\* os.getenv(name): the value, or None when the variable is not set.
Getenv(e, name) == e[name]

-----------------------------------------------------------------------------
(* Characters of name and mqtt_name *)

Lower == {"b"}
Upper == {"B"}
Digit == {"7"}
Chars == Lower \cup Upper \cup Digit \cup {"_", ".", " ", "!", "\n"}

\* [a-zA-Z0-9_\.]
InClass(c) == c \in Lower \cup Upper \cup Digit \cup {"_", "."}

\* MQTT_NAME_REGEX.match(s) is not None, for ^[a-zA-Z0-9_\.]+$ .
\* Python's $ (no re.MULTILINE) matches at the end of the string and also
\* just before a newline that is the last character of the string.
MQTT_NAME_REGEX(s) ==
    LET body == IF Len(s) > 0 /\ s[Len(s)] = "\n" THEN SubSeq(s, 1, Len(s) - 1)
                ELSE s
    IN  Len(body) > 0 /\ \A k \in 1..Len(body) : InClass(body[k])

ToLower(c) == IF c = "B" THEN "b" ELSE c
IsAlnum(c) == c \in Lower \cup Upper \cup Digit

\* lib.helpers.slugify: lowercase, every run of non-alphanumeric characters
\* collapsed to one separator.
RECURSIVE SlugFrom(_, _, _)
SlugFrom(s, k, inRun) ==
    IF k > Len(s) THEN <<>>
    ELSE IF IsAlnum(s[k]) THEN <<ToLower(s[k])>> \o SlugFrom(s, k + 1, FALSE)
    ELSE IF inRun THEN SlugFrom(s, k + 1, TRUE)
    ELSE <<"_">> \o SlugFrom(s, k + 1, TRUE)

slugify(text) == SlugFrom(text, 1, FALSE)

-----------------------------------------------------------------------------
(* The entry-level functions of SCHEMA *)

\* An error raised for entry `index`: a field of the mapping failed its
\* validator (kind "field"), or ensure_mqtt_name raised Invalid (kind
\* "mqtt_name", with the camera name and the value the message quotes).
FieldError(index, field) ==
    [index |-> index, kind |-> "field", field |-> field, camera |-> <<>>, got |-> <<>>]
MqttNameError(index, camera) ==
    [index |-> index, kind |-> "mqtt_name", field |-> "mqtt_name",
     camera |-> camera.name.v, got |-> camera.mqtt_name.v]

\* check_for_hwaccels reading the CUDA variable where it should read VAAPI's.
check_for_hwaccels_cuda(hwaccel_args, h) ==
    IF Len(h[hwaccel_args.id]) > 0 THEN hwaccel_args
    ELSE IF Getenv(env, ENV_CUDA_SUPPORTED) = Val("true") THEN Ref(Global("HWACCEL_VAAPI"))
    ELSE hwaccel_args

check_for_hwaccels(hwaccel_args, h) ==
    IF Len(h[hwaccel_args.id]) > 0 THEN hwaccel_args
    ELSE IF Getenv(env, ENV_VAAPI_SUPPORTED) = Val("true") THEN Ref(Global("HWACCEL_VAAPI"))
    ELSE hwaccel_args

\* get_codec asking for the Raspberry Pi before CUDA.
get_codec_rpi3_first(camera) ==
    IF Truthy(camera.codec) THEN camera
    ELSE IF camera.stream_format = Val("rtsp") THEN
        IF Getenv(env, ENV_RASPBERRYPI3) = Val("true")
            THEN [camera EXCEPT !.codec = Val(HWACCEL_RPI3_DECODER_CODEC)]
        ELSE IF Getenv(env, ENV_CUDA_SUPPORTED) = Val("true")
            THEN [camera EXCEPT !.codec = Val(HWACCEL_CUDA_DECODER_CODEC)]
        ELSE [camera EXCEPT !.codec = Val(DECODER_CODEC)]
    ELSE camera

\* get_codec without the early return for a codec that is set.
get_codec_overwrite(camera) ==
    IF camera.stream_format = Val("rtsp") THEN
        IF Getenv(env, ENV_CUDA_SUPPORTED) = Val("true")
            THEN [camera EXCEPT !.codec = Val(HWACCEL_CUDA_DECODER_CODEC)]
        ELSE IF Getenv(env, ENV_RASPBERRYPI3) = Val("true")
            THEN [camera EXCEPT !.codec = Val(HWACCEL_RPI3_DECODER_CODEC)]
        ELSE [camera EXCEPT !.codec = Val(DECODER_CODEC)]
    ELSE camera

get_codec(camera) ==
    IF Truthy(camera.codec) THEN camera
    ELSE IF camera.stream_format = Val("rtsp") THEN
        IF Getenv(env, ENV_CUDA_SUPPORTED) = Val("true")
            THEN [camera EXCEPT !.codec = Val(HWACCEL_CUDA_DECODER_CODEC)]
        ELSE IF Getenv(env, ENV_RASPBERRYPI3) = Val("true")
            THEN [camera EXCEPT !.codec = Val(HWACCEL_RPI3_DECODER_CODEC)]
        ELSE [camera EXCEPT !.codec = Val(DECODER_CODEC)]
    ELSE camera

\* ensure_mqtt_name taking the name as it is and checking only a given mqtt_name.
ensure_mqtt_name_unchecked(camera) ==
    IF camera.mqtt_name = None
    THEN [ok |-> TRUE, camera |-> [camera EXCEPT !.mqtt_name = camera.name]]
    ELSE [ok |-> MQTT_NAME_REGEX(camera.mqtt_name.v), camera |-> camera]

\* ensure_mqtt_name deriving mqtt_name also when one is given.
ensure_mqtt_name_always(camera) ==
    LET named == [camera EXCEPT !.mqtt_name = Val(slugify(camera.name.v))]
    IN  [ok |-> MQTT_NAME_REGEX(named.mqtt_name.v), camera |-> named]

\* Returns [ok, camera]: ok = FALSE stands for `raise Invalid(...)`; camera is
\* the mapping as the function left it.
ensure_mqtt_name(camera) ==
    LET named == IF camera.mqtt_name = None
                 THEN [camera EXCEPT !.mqtt_name = Val(slugify(camera.name.v))]
                 ELSE camera
    IN  [ok |-> MQTT_NAME_REGEX(named.mqtt_name.v), camera |-> named]

\* config_object_detection.LABELS_SCHEMA: an opaque sub-schema; the labels it
\* accepts are returned as given.
LABELS_SCHEMA(labels) == labels

-----------------------------------------------------------------------------
(* SCHEMA: the mapping validators *)

NonEmptyStr(x) == x.t = "val" /\ Len(x.v) >= 1
AtLeastOne(x) == x.t = "val" /\ x.v >= 1
OrDefault(x, d) == IF x = Absent THEN d ELSE x

StreamFormats == {"rtsp", "mjpeg"}
RtspTransports == {"tcp", "udp", "udp_multicast", "http"}

ZoneValid(z) == z.name.t = "val" /\ z.points.t = "val"

\* The keys of a raw mapping whose value fails the key's validator, or that are
\* required and missing (Absent fails every validator of a required key).
InvalidFields(c) ==
    {f \in {"name", "host", "path"} : ~NonEmptyStr(c[f])}
    \cup {f \in {"port"} : ~AtLeastOne(c[f])}
    \cup {f \in {"mqtt_name", "username", "password"} :
            c[f] \notin {Absent, None} /\ ~NonEmptyStr(c[f])}
    \cup {f \in {"fps"} : c[f] \notin {Absent, None} /\ ~AtLeastOne(c[f])}
    \cup {f \in {"stream_format"} : c[f] # Absent /\ c[f] \notin {Val(s) : s \in StreamFormats}}
    \cup {f \in {"rtsp_transport"} :
            c[f] # Absent /\ c[f] \notin {Val(s) : s \in RtspTransports}}
    \cup {f \in {"zones"} :
            c[f] # Absent /\ \E k \in 1..Len(c[f].v) : ~ZoneValid(c[f].v[k])}

\* The list object a vector key of raw mapping `i` of load `n` holds.
VectorOf(c, n, i, field) ==
    CASE c[field].t = "absent" -> Ref(DefaultObject(field))
      [] c[field].t = "val" -> Ref(Own(n, i, field))
      [] c[field].t = "ref" -> c[field]

\* The list objects raw mapping `i` of load `n` brings with it.
OwnObjects(c, n, i) ==
    [id \in {Own(n, i, f) : f \in {g \in VectorFields : c[g].t = "val"}} |-> c[id[3]].v]

\* The mapping validator {...} of lines 74-141 on a mapping without invalid
\* fields: every key present, defaults filled in, values as given.
Mapping(c, n, i, h) ==
    [name |-> c.name,
     mqtt_name |-> OrDefault(c.mqtt_name, None),
     stream_format |-> OrDefault(c.stream_format, Val("rtsp")),
     host |-> c.host,
     port |-> c.port,
     username |-> OrDefault(c.username, None),
     password |-> OrDefault(c.password, None),
     path |-> c.path,
     fps |-> OrDefault(c.fps, None),
     global_args |-> VectorOf(c, n, i, "global_args"),
     input_args |-> VectorOf(c, n, i, "input_args"),
     hwaccel_args |-> check_for_hwaccels(VectorOf(c, n, i, "hwaccel_args"), h),
     codec |-> OrDefault(c.codec, Val("")),
     rtsp_transport |-> OrDefault(c.rtsp_transport, Val("tcp")),
     filter_args |-> VectorOf(c, n, i, "filter_args"),
     object_detection |->
        IF c.object_detection \in {Absent, None} THEN None
        ELSE Val([labels |-> IF c.object_detection.v.labels = Absent THEN Absent
                             ELSE Val(LABELS_SCHEMA(c.object_detection.v.labels.v))]),
     zones |->
        IF c.zones = Absent THEN Val(<<>>)
        ELSE Val([k \in 1..Len(c.zones.v) |->
                [name |-> c.zones.v[k].name,
                 points |-> c.zones.v[k].points,
                 labels |-> IF c.zones.v[k].labels = Absent THEN Absent
                            ELSE Val(LABELS_SCHEMA(c.zones.v[k].labels.v))]])]

\* All({...}, get_codec, ensure_mqtt_name) on raw mapping `i` of load `n`:
\* [ok, camera, error].  All stops at the first validator that raises.
ValidateEntry(c, n, i, h) ==
    LET bad == InvalidFields(c)
    IN  IF bad # {}
        THEN [ok |-> FALSE, camera |-> c, error |-> FieldError(i, CHOOSE f \in bad : TRUE)]
        ELSE LET named == ensure_mqtt_name(get_codec(Mapping(c, n, i, OwnObjects(c, n, i) @@ h)))
             IN  [ok |-> named.ok, camera |-> named.camera,
                  error |-> MqttNameError(i, named.camera)]

\* SCHEMA dropping the entries that fail and returning the others.
SCHEMA_partial(cameras, n, h) ==
    LET out == [i \in 1..Len(cameras) |-> ValidateEntry(cameras[i], n, i, h)]
        RECURSIVE Kept(_)
        Kept(i) == IF i > Len(cameras) THEN <<>>
                   ELSE (IF out[i].ok THEN <<out[i].camera>> ELSE <<>>) \o Kept(i + 1)
        RECURSIVE Objects(_)
        Objects(i) == IF i > Len(cameras) THEN h
                      ELSE OwnObjects(cameras[i], n, i) @@ Objects(i + 1)
    IN  [ok |-> TRUE, cameras |-> Kept(1), errors |-> <<>>, heap |-> Objects(1)]

\* SCHEMA(cameras), load number n, with heap h: [ok, cameras, errors, heap].
\* The sequence validator returns the list of validated entries when every
\* entry validates, and raises (MultipleInvalid) otherwise.
SCHEMA(cameras, n, h) ==
    LET out == [i \in 1..Len(cameras) |-> ValidateEntry(cameras[i], n, i, h)]
        failed == {i \in 1..Len(cameras) : ~out[i].ok}
        RECURSIVE Errors(_)
        Errors(i) == IF i > Len(cameras) THEN <<>>
                     ELSE (IF out[i].ok THEN <<>> ELSE <<out[i].error>>) \o Errors(i + 1)
        RECURSIVE Objects(_)
        Objects(i) == IF i > Len(cameras) THEN h
                      ELSE OwnObjects(cameras[i], n, i) @@ Objects(i + 1)
    IN  IF failed = {}
        THEN [ok |-> TRUE, cameras |-> [i \in 1..Len(cameras) |-> out[i].camera],
              errors |-> <<>>, heap |-> Objects(1)]
        ELSE [ok |-> FALSE, cameras |-> <<>>, errors |-> Errors(1), heap |-> h]

-----------------------------------------------------------------------------
(* CameraConfig *)

NoDescriptor == [t |-> "none"]

\* getattr(obj, "labels", []) of a validated mapping, or of None.
GetLabels(obj) ==
    IF obj = None THEN <<>>
    ELSE IF obj.v.labels = Absent THEN <<>>
    ELSE obj.v.labels.v

\* generate_zones without the fallback to the object_detection labels.
generate_zones_no_fallback(self, zones) ==
    [k \in 1..Len(zones) |->
        [name |-> zones[k].name.v,
         labels |-> GetLabels(Val(zones[k])),
         coordinates |-> [p \in 1..Len(zones[k].points.v) |->
                            <<zones[k].points.v[p].x, zones[k].points.v[p].y>>]]]

generate_zones(self, zones) ==
    [k \in 1..Len(zones) |->
        LET zone == zones[k]
            zone_labels == GetLabels(Val(zone))
        IN  [name |-> zone.name.v,
             labels |-> IF Len(zone_labels) = 0 THEN GetLabels(self.object_detection)
                        ELSE zone_labels,
             coordinates |-> [p \in 1..Len(zone.points.v) |->
                                <<zone.points.v[p].x, zone.points.v[p].y>>]]]

\* CameraConfig.__init__
CameraConfig(camera) ==
    [t |-> "CameraConfig",
     name |-> camera.name,
     name_slug |-> slugify(camera.name.v),
     mqtt_name |-> camera.mqtt_name,
     stream_format |-> camera.stream_format,
     host |-> camera.host,
     port |-> camera.port,
     username |-> camera.username,
     password |-> camera.password,
     path |-> camera.path,
     fps |-> camera.fps,
     global_args |-> camera.global_args,
     input_args |-> camera.input_args,
     hwaccel_args |-> camera.hwaccel_args,
     codec |-> camera.codec,
     rtsp_transport |-> camera.rtsp_transport,
     filter_args |-> camera.filter_args,
     object_detection |-> camera.object_detection,
     zones |-> generate_zones([object_detection |-> camera.object_detection],
                              camera.zones.v)]

protocol(self) == IF self.stream_format = Val("rtsp") THEN "rtsp" ELSE "http"

\* stream_url with `or` for `and`.
stream_url_parts_or(self) ==
    IF Truthy(self.username) \/ Truthy(self.password)
    THEN <<protocol(self), "://", Format(self.username), ":", Format(self.password), "@",
           Format(self.host), ":", ToString(self.port.v), Format(self.path)>>
    ELSE <<protocol(self), "://", Format(self.host), ":", ToString(self.port.v),
           Format(self.path)>>

\* The literal pieces and formatted fields of stream_url's f-string, in order.
stream_url_parts(self) ==
    IF Truthy(self.username) /\ Truthy(self.password)
    THEN <<protocol(self), "://", Format(self.username), ":", Format(self.password), "@",
           Format(self.host), ":", ToString(self.port.v), Format(self.path)>>
    ELSE <<protocol(self), "://", Format(self.host), ":", ToString(self.port.v),
           Format(self.path)>>

RECURSIVE Concat(_)
Concat(parts) == IF parts = <<>> THEN "" ELSE Head(parts) \o Concat(Tail(parts))

stream_url(self) == Concat(stream_url_parts(self))

-----------------------------------------------------------------------------
(* Inputs: the process environment and the raw camera lists *)

\* A capability variable is set to "true" or is not set.
EnvValues == {Val("true"), None}
Envs == [{ENV_CUDA_SUPPORTED, ENV_RASPBERRYPI3, ENV_VAAPI_SUPPORTED} -> EnvValues]
\* A host with every capability, and one with none.
UniformEnvs == {e \in Envs : \A a, b \in DOMAIN e : e[a] = e[b]}

RECURSIVE SeqsUpTo(_, _)
SeqsUpTo(S, n) ==
    IF n = 0 THEN {<<>>}
    ELSE LET shorter == SeqsUpTo(S, n - 1)
         IN  shorter \cup {Append(q, x) : q \in shorter, x \in S}

Names == SeqsUpTo(Chars, MaxNameLen)

\* A camera that gives the required keys only.
BaseCamera ==
    [name |-> Val(<<"B", "b">>), mqtt_name |-> Absent, stream_format |-> Absent,
     host |-> Val("10.0.0.2"), port |-> Val(554), username |-> Absent,
     password |-> Absent, path |-> Val("/stream"), fps |-> Absent,
     global_args |-> Absent, input_args |-> Absent, hwaccel_args |-> Absent,
     codec |-> Absent, rtsp_transport |-> Absent, filter_args |-> Absent,
     object_detection |-> Absent, zones |-> Absent]

NameCameras ==
    {[BaseCamera EXCEPT !.name = Val(n)] : n \in Names}
    \cup {[BaseCamera EXCEPT !.mqtt_name = m] : m \in {None} \cup {Val(n) : n \in Names}}

CodecCameras ==
    {[BaseCamera EXCEPT !.codec = c, !.stream_format = f, !.hwaccel_args = a] :
        c \in {Absent, Val(""), Val("hevc")},
        f \in {Absent, Val("rtsp"), Val("mjpeg"), Val("hls")},
        a \in {Absent, Val(<<>>), Val(<<"-hwaccel", "cuda">>)}}

UrlCameras ==
    {[BaseCamera EXCEPT !.username = u, !.password = p, !.stream_format = f, !.port = n] :
        u \in {Absent, None, Val(""), Val("admin")},
        p \in {Absent, None, Val("secret")},
        f \in {Val("rtsp"), Val("mjpeg")},
        n \in {Val(0), Val(8554)}}

Labels == {Absent, Val(<<>>), Val(<<"car">>)}
Zones ==
    {[name |-> Val("yard"),
      points |-> Val(<<[x |-> 0, y |-> 0], [x |-> 4, y |-> 0], [x |-> 4, y |-> 3]>>),
      labels |-> l] : l \in Labels}
    \cup {[name |-> Val("gate"), points |-> Val(<<[x |-> 9, y |-> 1], [x |-> 2, y |-> 7]>>),
           labels |-> l] : l \in Labels}
    \cup {[name |-> Val("void"), points |-> Absent, labels |-> Absent]}
ObjectDetections ==
    {Absent, None, Val([labels |-> Absent]), Val([labels |-> Val(<<>>)]),
     Val([labels |-> Val(<<"person">>)])}

ZoneCameras ==
    {[BaseCamera EXCEPT !.zones = Val(z), !.object_detection = o] :
        z \in SeqsUpTo(Zones, MaxZones), o \in ObjectDetections}

OtherCameras ==
    {[BaseCamera EXCEPT !.fps = f, !.rtsp_transport = r, !.host = h] :
        f \in {None, Val(0), Val(25)}, r \in {Val("udp"), Val("rtp")},
        h \in {Absent, Val("cam.lan")}}

\* The cameras of the lists with several entries.
ListCameras ==
    {BaseCamera,
     [BaseCamera EXCEPT !.name = Val(<<"7">>), !.input_args = Val(<<"-re">>),
                        !.hwaccel_args = Val(<<"-hwaccel", "cuda">>)],
     [BaseCamera EXCEPT !.mqtt_name = Val(<<"b", " ">>)],
     [BaseCamera EXCEPT !.port = Val(0)]}

CameraLists == SeqsUpTo(ListCameras, MaxCameras)

AllLists ==
    CameraLists
    \cup {<<c>> : c \in NameCameras \cup CodecCameras \cup UrlCameras
                        \cup ZoneCameras \cup OtherCameras}

-----------------------------------------------------------------------------
(* State machine *)

Start(envs, lists) ==
    /\ env \in envs
    /\ raw \in lists
    /\ heap = InitialHeap
    /\ source = <<>>
    /\ config = <<>>
    /\ result = "none"
    /\ errors = <<>>
    /\ loads = 0
    /\ passes = 0
    /\ descriptor = NoDescriptor
    /\ built = 0
    /\ mutated = {}

Init == Start(Envs, AllLists)
InitLists == Start(Envs, CameraLists)
InitReload == Start(UniformEnvs, CameraLists)

\* The list objects still referenced once `cameras` is the configuration.
Live(cameras) ==
    DOMAIN InitialHeap
    \cup {cameras[i][f].id : i \in 1..Len(cameras), f \in VectorFields}
    \cup (IF descriptor = NoDescriptor THEN {}
          ELSE {descriptor[f].id : f \in VectorFields})

\* config = SCHEMA(cameras): the assignment happens only if SCHEMA returns.
Validate(cameras) ==
    LET r == SCHEMA(cameras, loads + 1, heap)
    IN  /\ raw' = cameras
        /\ loads' = loads + 1
        /\ errors' = r.errors
        /\ IF r.ok
           THEN /\ result' = "ok"
                /\ config' = r.cameras
                /\ source' = cameras
                /\ heap' = [id \in DOMAIN r.heap \cap Live(r.cameras) |-> r.heap[id]]
                /\ passes' = 1
                /\ mutated' = {}
           ELSE /\ result' = "error"
                /\ UNCHANGED <<config, source, heap, passes, mutated>>
        /\ UNCHANGED <<env, descriptor, built>>

\* The load at startup.
Load ==
    /\ result = "none"
    /\ Validate(raw)

\* An explicit reload with a new raw list.
Reload ==
    /\ result # "none"
    /\ loads < MaxLoads
    /\ \E cameras \in CameraLists : Validate(cameras)

\* The validated entries handed to SCHEMA once more.
Revalidate ==
    /\ result = "ok"
    /\ passes < MaxPasses
    /\ LET r == SCHEMA(config, loads, heap)
       IN  /\ raw' = config
           /\ errors' = r.errors
           /\ passes' = passes + 1
           /\ IF r.ok
              THEN /\ result' = "ok"
                   /\ config' = r.cameras
                   /\ heap' = [id \in DOMAIN r.heap \cap Live(r.cameras) |-> r.heap[id]]
              ELSE /\ result' = "error"
                   /\ UNCHANGED <<config, heap>>
    /\ UNCHANGED <<env, source, loads, descriptor, built, mutated>>

\* CameraConfig(camera) for one validated entry.
NewCameraConfig ==
    /\ result = "ok"
    /\ \E i \in 1..Len(config) :
        /\ descriptor' = CameraConfig(config[i])
        /\ built' = i
    /\ UNCHANGED <<env, heap, raw, source, config, result, errors, loads, passes, mutated>>

\* A consumer appends to an argument vector of entry i, in place.
Mutate ==
    /\ result = "ok"
    /\ Cardinality(mutated) < MaxMutations
    /\ \E i \in 1..Len(config), f \in VectorFields :
        /\ <<i, f>> \notin mutated
        /\ heap' = [heap EXCEPT ![config[i][f].id] = Append(@, "-an")]
        /\ mutated' = mutated \cup {<<i, f>>}
    /\ UNCHANGED <<env, raw, source, config, result, errors, loads, passes, descriptor,
                   built>>

Next == Load \/ Revalidate \/ NewCameraConfig
Spec == Init /\ [][Next]_vars

NextReload == Load \/ Reload
SpecReload == InitReload /\ [][NextReload]_vars

NextAlias == Load \/ Reload \/ Mutate
SpecAlias == InitLists /\ [][NextAlias]_vars

-----------------------------------------------------------------------------
(* Properties *)

Active(name) == env[name] = Val("true")
Content(ref) == heap[ref.id]
Unset(x) == x \in {Absent, None}
Range(q) == {q[k] : k \in 1..Len(q)}

\* The entries with every argument vector replaced by its content.
View(cameras, h) ==
    [i \in 1..Len(cameras) |->
        [f \in DOMAIN cameras[i] |->
            IF f \in VectorFields THEN h[cameras[i][f].id] ELSE cameras[i][f]]]

\* The content an argument vector left unset is meant to have.
DefaultContent(field) ==
    CASE field = "global_args" -> CAMERA_GLOBAL_ARGS
      [] field = "input_args" -> CAMERA_INPUT_ARGS
      [] field = "filter_args" -> FILTER_ARGS_DEFAULT
      [] field = "hwaccel_args" ->
            IF Active(ENV_VAAPI_SUPPORTED) THEN HWACCEL_VAAPI ELSE CAMERA_HWACCEL_ARGS

\* C1: entries that leave an argument vector unset each have a vector of
\* their own: whatever is appended in place to the vectors of other entries,
\* the vector of an entry that was not touched, and the defaults later
\* validations start from, still hold the default content.
C1_IndependentVectors ==
    result # "none" =>
        /\ \A g \in DOMAIN InitialHeap : heap[g] = InitialHeap[g]
        /\ \A i \in 1..Len(config) : \A f \in VectorFields :
            (source[i][f] = Absent /\ <<i, f>> \notin mutated)
                => Content(config[i][f]) = DefaultContent(f)

\* C2: a load is all-or-nothing.  When every entry of the list validates the
\* result is one validated entry per raw entry, in the order given; when any
\* entry fails the load raises, and the configuration built before stays as
\* it was.
C2_AllOrNothing ==
    [][loads' = loads + 1 =>
        LET out == [i \in 1..Len(raw') |-> ValidateEntry(raw'[i], loads', i, heap)]
        IN  IF \A i \in 1..Len(raw') : out[i].ok
            THEN /\ result' = "ok"
                 /\ Len(config') = Len(raw')
                 /\ \A i \in 1..Len(raw') : config'[i] = out[i].camera
            ELSE /\ result' = "error"
                 /\ errors' # <<>>
                 /\ config' = config
                 /\ View(config', heap') = View(config, heap)]_vars

\* C2 witness: a reload of two entries, one valid and one not, was rejected
\* while a configuration of an earlier load is in place.
C2_Witness ==
    /\ loads = 2
    /\ result = "error"
    /\ Len(config) = 1
    /\ Len(raw) = 2
    /\ InvalidFields(raw[1]) = {}
    /\ raw[1].mqtt_name = Absent
    /\ errors # <<>>

\* C3: every validated entry has an mqtt_name made of the characters
\* [A-Za-z0-9_.] only, and an mqtt_name error names the camera and quotes the
\* value that was refused.
C3_MqttNameCharset ==
    /\ result = "ok" =>
        \A i \in 1..Len(config) :
            /\ Len(config[i].mqtt_name.v) > 0
            /\ \A k \in 1..Len(config[i].mqtt_name.v) : InClass(config[i].mqtt_name.v[k])
    /\ \A k \in 1..Len(errors) :
        errors[k].kind = "mqtt_name" =>
            /\ errors[k].camera = raw[errors[k].index].name.v
            /\ errors[k].got = (IF Unset(raw[errors[k].index].mqtt_name)
                                THEN slugify(raw[errors[k].index].name.v)
                                ELSE raw[errors[k].index].mqtt_name.v)
            /\ \E c \in Range(errors[k].got) : ~InClass(c)

\* C4: with codec unset, an rtsp stream gets the CUDA codec when CUDA is
\* active, else the Raspberry Pi codec when RaspberryPi3 is active, else the
\* software codec; an mjpeg stream keeps an empty codec.
C4_CodecPriority ==
    result = "ok" =>
        \A i \in 1..Len(config) :
            (source[i].codec \in {Absent, Val("")}) =>
                IF source[i].stream_format \in {Absent, Val("rtsp")}
                THEN config[i].codec =
                        Val(IF Active(ENV_CUDA_SUPPORTED) THEN HWACCEL_CUDA_DECODER_CODEC
                            ELSE IF Active(ENV_RASPBERRYPI3) THEN HWACCEL_RPI3_DECODER_CODEC
                            ELSE DECODER_CODEC)
                ELSE source[i].stream_format = Val("mjpeg") /\ config[i].codec = Val("")

\* C4 witness: CUDA and RaspberryPi3 both active, codec unset, rtsp.
C4_Witness ==
    /\ result = "ok"
    /\ Len(config) = 1
    /\ source[1].codec = Absent
    /\ source[1].stream_format = Val("rtsp")
    /\ Active(ENV_CUDA_SUPPORTED)
    /\ Active(ENV_RASPBERRYPI3)
    /\ config[1].codec = Val(HWACCEL_CUDA_DECODER_CODEC)

\* C5: a codec that is not empty on input is the codec of the validated
\* entry, whatever the stream format and the capabilities.
C5_CodecPreserved ==
    result = "ok" =>
        \A i \in 1..Len(config) :
            (source[i].codec # Absent /\ source[i].codec # Val(""))
                => config[i].codec = source[i].codec

\* C5 witness: a given codec kept on an rtsp stream with CUDA active.
C5_Witness ==
    /\ result = "ok"
    /\ Len(config) = 1
    /\ source[1].codec = Val("hevc")
    /\ source[1].stream_format \in {Absent, Val("rtsp")}
    /\ Active(ENV_CUDA_SUPPORTED)
    /\ config[1].codec = Val("hevc")

\* C6: a second pass of validated entries through SCHEMA succeeds and
\* changes no field of any entry.
C6_Idempotent ==
    [][(passes >= 1 /\ passes' = passes + 1) =>
        /\ result' = "ok"
        /\ View(config', heap') = View(config, heap)]_vars

\* C6 witness: a second pass over an entry whose codec, hwaccel_args and
\* mqtt_name were all filled in by the first.
C6_Witness ==
    /\ passes = 2
    /\ result = "ok"
    /\ Len(config) = 1
    /\ source[1].mqtt_name = Absent
    /\ source[1].codec = Absent
    /\ source[1].hwaccel_args = Absent
    /\ Active(ENV_VAAPI_SUPPORTED)
    /\ Content(config[1].hwaccel_args) = HWACCEL_VAAPI
    /\ config[1].codec # Val("")

\* The labels a validated mapping (a zone, or object_detection) defines.
Defined(x) == IF x = None \/ x = Absent THEN <<>>
              ELSE IF x.v.labels = Absent THEN <<>> ELSE x.v.labels.v

\* C7: the descriptor has one zone per zone of the entry, in order, each
\* with the zone's name, the zone's own labels when it has any and otherwise
\* the labels of the entry's object_detection (none when there are none),
\* and the points in the order given, none added.
C7_Zones ==
    built # 0 =>
        LET camera == config[built]
            zones == camera.zones.v
            parent == Defined(camera.object_detection)
        IN  /\ Len(descriptor.zones) = Len(zones)
            /\ \A k \in 1..Len(zones) :
                LET own == Defined(Val(zones[k]))
                    zone == descriptor.zones[k]
                IN  /\ zone.name = zones[k].name.v
                    /\ zone.labels = (IF own # <<>> THEN own ELSE parent)
                    /\ (zone.labels # <<>>) <=> (own # <<>> \/ parent # <<>>)
                    /\ Len(zone.coordinates) = Len(zones[k].points.v)
                    /\ \A p \in 1..Len(zone.coordinates) :
                        zone.coordinates[p] = <<zones[k].points.v[p].x, zones[k].points.v[p].y>>

\* C7 witness: two zones, the first without labels of its own under an
\* object_detection with labels, the second with its own.
C7_Witness ==
    /\ built = 1
    /\ Len(descriptor.zones) = 2
    /\ config[1].zones.v[1].labels = Absent
    /\ config[1].zones.v[2].labels = Val(<<"car">>)
    /\ descriptor.zones[1].labels = <<"person">>
    /\ descriptor.zones[2].labels = <<"car">>
    /\ descriptor.zones[1].name = "gate"
    /\ descriptor.zones[2].name = "yard"

\* C8: stream_url carries user:password@ exactly when username and password
\* are both present, and is protocol://host:port/path otherwise; the protocol
\* is rtsp for an rtsp stream and http otherwise.
C8_StreamUrl ==
    built # 0 =>
        LET camera == config[built]
            scheme == IF camera.stream_format.v = "rtsp" THEN "rtsp" ELSE "http"
            address == camera.host.v \o ":" \o ToString(camera.port.v) \o camera.path.v
        IN  IF camera.username # None /\ camera.password # None
            THEN stream_url(descriptor) =
                    scheme \o "://" \o camera.username.v \o ":" \o camera.password.v
                    \o "@" \o address
            ELSE /\ stream_url(descriptor) = scheme \o "://" \o address
                 /\ Range(stream_url_parts(descriptor))
                        \cap ({"@", "None"}
                              \cup {x.v : x \in {camera.username, camera.password} \ {None}})
                        = {}

\* C8 witness: a username without a password on an mjpeg stream.
C8_Witness ==
    /\ built = 1
    /\ config[1].username = Val("admin")
    /\ config[1].password = None
    /\ stream_url(descriptor) = "http://10.0.0.2:8554/stream"

\* Lowercase letters, digits, underscore and dot.
InSlugClass(c) == c \in Lower \cup Digit \cup {"_", "."}

\* C9: an mqtt_name left unset is the slug of name, made of lowercase
\* letters, digits, underscore and dot only, and it passes the check, so no
\* mqtt_name error is raised for such an entry; an mqtt_name that is given is
\* the mqtt_name of the validated entry.
C9_DerivedMqttName ==
    /\ result = "ok" =>
        \A i \in 1..Len(config) :
            IF Unset(source[i].mqtt_name)
            THEN /\ config[i].mqtt_name = Val(slugify(source[i].name.v))
                 /\ Len(config[i].mqtt_name.v) > 0
                 /\ \A k \in 1..Len(config[i].mqtt_name.v) :
                        InSlugClass(config[i].mqtt_name.v[k])
                 /\ MQTT_NAME_REGEX(config[i].mqtt_name.v)
            ELSE config[i].mqtt_name = source[i].mqtt_name
    /\ \A k \in 1..Len(errors) :
        errors[k].kind = "mqtt_name" => ~Unset(raw[errors[k].index].mqtt_name)

\* C9 witness: a name with an upper-case letter and a character outside the
\* class, and no mqtt_name.
C9_Witness ==
    /\ result = "ok"
    /\ Len(config) = 1
    /\ source[1].mqtt_name = Absent
    /\ source[1].name = Val(<<"B", "!">>)
    /\ config[1].mqtt_name = Val(<<"b", "_">>)

\* C10: hwaccel_args is the vector the entry gives when that is not empty;
\* otherwise the VAAPI vector when VAAPI is active; otherwise empty.  CUDA
\* and RaspberryPi3 play no part.
C10_HwaccelChain ==
    result = "ok" =>
        \A i \in 1..Len(config) :
            Content(config[i].hwaccel_args) =
                IF source[i].hwaccel_args # Absent /\ source[i].hwaccel_args.v # <<>>
                THEN source[i].hwaccel_args.v
                ELSE IF Active(ENV_VAAPI_SUPPORTED) THEN HWACCEL_VAAPI
                ELSE <<>>

\* C10 witness: no hwaccel_args given, VAAPI active and CUDA not.
C10_Witness ==
    /\ result = "ok"
    /\ Len(config) = 1
    /\ source[1].hwaccel_args = Absent
    /\ Active(ENV_VAAPI_SUPPORTED)
    /\ ~Active(ENV_CUDA_SUPPORTED)
    /\ Content(config[1].hwaccel_args) = HWACCEL_VAAPI

====
